---- MODULE Spec2Model ----
(***************************************************************************)
(* iBIT expansion board library (iBIT.py) and its QC loop (main.py).       *)
(*                                                                         *)
(* The board is a record m = [pin, addr, trace, bus]:                      *)
(*   pin   : what was last written to each pin (digital level, analog      *)
(*           duty, PWM period), Unwritten before the first write;          *)
(*   addr  : the class attribute iBIT.ADC_ADDRESS;                         *)
(*   trace : the pin writes of the current call (or QC tick), in program   *)
(*           order, each <<pin, kind, value>>;                             *)
(*   bus   : the I2C transactions since the start of the latest ReadADC    *)
(*           call (or QC tick), in program order.                          *)
(* Every library method is an operator from board to board, so that the    *)
(* QC loop can run them in sequence inside one tick.  Arguments are        *)
(* integers, on which the int(...) conversions of the library change       *)
(* nothing.                                                                *)
(*                                                                         *)
(* Four programs use the library: SpecMotion, SpecServo and SpecADC call   *)
(* one part of the API each, in any order with any arguments; SpecQC is    *)
(* the loop of main.py.                                                    *)
(***************************************************************************)
EXTENDS Integers, Sequences, FiniteSets, TLC

VARIABLES pin, ADC_ADDRESS, trace, bus, call, setHist,
          direction_motor, direction_time, t0, now, icon,
          btnA, btnB, issued, motorHist

vars == <<pin, ADC_ADDRESS, trace, bus, call, setHist,
          direction_motor, direction_time, t0, now, icon,
          btnA, btnB, issued, motorHist>>

\* call      : the latest API call, [op, args, ret] (ret "None" for a method
\*             that returns nothing)
\* setHist   : the arguments of the setADC_Address calls so far
\* direction_motor, direction_time, t0 : the globals of main.py
\* now       : running_time()
\* icon      : the image on the display
\* btnA, btnB: the buttons as the latest tick sampled them
\* issued    : the library calls of the latest tick, in program order
\* motorHist : for every tick so far, its Motor / MotorStop calls
libVars == <<pin, ADC_ADDRESS, trace, bus>>
qcVars == <<direction_motor, direction_time, t0, now, icon,
            btnA, btnB, issued, motorHist>>

----------------------------------------------------------------------------
\* Public constants of iBIT.py

FORWARD == 0
BACKWARD == 1
TURN_LEFT == 0
TURN_RIGHT == 1
SPIN_LEFT == 0
SPIN_RIGHT == 1
SV1 == 0
SV2 == 1
M1 == 0
M2 == 1
ADC0 == 132
ADC1 == 196
ADC2 == 148
ADC3 == 212
ADC4 == 164
ADC5 == 228
ADC6 == 180
ADC7 == 244
IBIT_V1 == 72
IBIT_V2 == 74

\* The pins the library imports from microbit
pin8 == "P8"
pin12 == "P12"
pin13 == "P13"
pin14 == "P14"
pin15 == "P15"
pin16 == "P16"
Pins == {pin8, pin12, pin13, pin14, pin15, pin16}

----------------------------------------------------------------------------
\* Bounds of the model

\* how far below 0 and above 100 the speed arguments reach
SpeedSlack == 1
\* how far below 0 and above 180 the degree arguments reach
DegSlack == 1
\* number of setADC_Address calls whose arguments are remembered
MaxSets == 2
\* number of 500 ms action ticks of the QC loop
MaxTicks == 9

Speeds == {1, 50}
          \cup ((0 - SpeedSlack) .. 0) \cup (100 .. (100 + SpeedSlack))
Degrees == {1, 60, 90, 120, 179}
           \cup ((0 - DegSlack) .. 0) \cup (180 .. (180 + DegSlack))
\* selector arguments (direction, channel, servo, turn, spin): the two
\* recognised values and one that is not
Selectors == 0 .. 2
\* an address that is neither of the two known ones (the setter takes any)
Addrs == {IBIT_V1, IBIT_V2, 0}
\* the two bytes the ADC answers with
Datas == {<<1, 2>>, <<255, 128>>}

----------------------------------------------------------------------------
\* The board

Unwritten == 0 - 1

FreshPin == [dig |-> Unwritten, ana |-> Unwritten, period |-> Unwritten]

Board(p, a, t, b) == [pin |-> p, addr |-> a, trace |-> t, bus |-> b]

\* microbit pin primitives: the last value written, and the write in the trace
write_digital(m, p, v) ==
    [m EXCEPT !.pin[p].dig = v,
              !.trace = Append(@, <<p, "digital", v>>)]

write_analog(m, p, v) ==
    [m EXCEPT !.pin[p].ana = v,
              !.trace = Append(@, <<p, "analog", v>>)]

set_analog_period_microseconds(m, p, v) ==
    [m EXCEPT !.pin[p].period = v,
              !.trace = Append(@, <<p, "period", v>>)]

\* microbit i2c primitives: one transaction each
i2c_write(m, a, bytes) == [m EXCEPT !.bus = Append(@, <<"write", a, bytes>>)]

i2c_read(m, a, n) == [m EXCEPT !.bus = Append(@, <<"read", a, n>>)]

----------------------------------------------------------------------------
\* "Private" helpers

clamp(x, lo, hi) == IF x < lo THEN lo ELSE IF x > hi THEN hi ELSE x

\* The variant of the speed mapping that scales by 1024 instead of 1023
map_0_100_to_0_1024(speed_percent) ==
    LET s == clamp(speed_percent, 0, 100) IN (s * 1024) \div 100

map_0_100_to_0_1023(speed_percent) ==
    LET s == clamp(speed_percent, 0, 100) IN (s * 1023) \div 100

\* The variant of the servo write that does not clamp the angle
servo_write_deg_unclamped(m, p, deg0, us_min, us_max) ==
    LET period_us == 20000
        m1 == set_analog_period_microseconds(m, p, period_us)
        pulse_us == us_min + ((us_max - us_min) * deg0) \div 180
        duty == clamp((pulse_us * 1023) \div period_us, 0, 1023)
    IN  write_analog(m1, p, duty)

servo_write_deg(m, p, deg0, us_min, us_max) ==
    LET deg == clamp(deg0, 0, 180)
        period_us == 20000
        m1 == set_analog_period_microseconds(m, p, period_us)
        pulse_us == us_min + ((us_max - us_min) * deg) \div 180
        duty == clamp((pulse_us * 1023) \div period_us, 0, 1023)
    IN  write_analog(m1, p, duty)

servo_stop(m, p) == write_digital(write_analog(m, p, 0), p, 0)

----------------------------------------------------------------------------
\* Public API (motor control)

\* four writes in program order: P13 level, P14 duty, P15 level, P16 duty
Drive(m, d13, a14, d15, a16) ==
    write_analog(
        write_digital(
            write_analog(
                write_digital(m, pin13, d13),
                pin14, a14),
            pin15, d15),
        pin16, a16)

\* The variant of Motor whose BACKWARD branch repeats the FORWARD levels
Motor_sameLevels(m, direction, speed) ==
    LET motorspeed == map_0_100_to_0_1023(speed) IN
    IF direction = FORWARD THEN Drive(m, 1, motorspeed, 0, motorspeed)
    ELSE IF direction = BACKWARD THEN Drive(m, 1, motorspeed, 0, motorspeed)
    ELSE m

Motor(m, direction, speed) ==
    LET motorspeed == map_0_100_to_0_1023(speed) IN
    IF direction = FORWARD THEN Drive(m, 1, motorspeed, 0, motorspeed)
    ELSE IF direction = BACKWARD THEN Drive(m, 0, motorspeed, 1, motorspeed)
    ELSE m

Motor2(m, direction, speed1, speed2) ==
    LET ms1 == map_0_100_to_0_1023(speed1)
        ms2 == map_0_100_to_0_1023(speed2) IN
    IF direction = FORWARD THEN Drive(m, 1, ms1, 0, ms2)
    ELSE IF direction = BACKWARD THEN Drive(m, 0, ms1, 1, ms2)
    ELSE m

Turn(m, turn_dir, speed) ==
    LET motorspeed == map_0_100_to_0_1023(speed) IN
    IF turn_dir = TURN_LEFT THEN Drive(m, 1, 0, 0, motorspeed)
    ELSE IF turn_dir = TURN_RIGHT THEN Drive(m, 1, motorspeed, 0, 0)
    ELSE m

\* The variant of Spin whose SPIN_RIGHT branch drives the pins as Motor does
Spin_asMotor(m, spin_dir, speed) ==
    LET motorspeed == map_0_100_to_0_1023(speed) IN
    IF spin_dir = SPIN_LEFT THEN Drive(m, 0, motorspeed, 0, motorspeed)
    ELSE IF spin_dir = SPIN_RIGHT THEN Drive(m, 1, motorspeed, 0, motorspeed)
    ELSE m

Spin(m, spin_dir, speed) ==
    LET motorspeed == map_0_100_to_0_1023(speed) IN
    IF spin_dir = SPIN_LEFT THEN Drive(m, 0, motorspeed, 0, motorspeed)
    ELSE IF spin_dir = SPIN_RIGHT THEN Drive(m, 1, motorspeed, 1, motorspeed)
    ELSE m

\* The variant of MotorStop that leaves P15 at the FORWARD level
MotorStop_forwardLevels(m) == Drive(m, 1, 0, 0, 0)

MotorStop(m) == Drive(m, 1, 0, 1, 0)

\* The variant of setMotor whose last branch tests the direction alone, so
\* that an unrecognised channel drives motor 2 backward
setMotor_looseBranch(m, channel, direction, speed) ==
    LET motorspeed == map_0_100_to_0_1023(speed) IN
    IF channel = M1 /\ direction = FORWARD
        THEN write_analog(write_digital(m, pin13, 1), pin14, motorspeed)
    ELSE IF channel = M2 /\ direction = FORWARD
        THEN write_analog(write_digital(m, pin15, 0), pin16, motorspeed)
    ELSE IF channel = M1 /\ direction = BACKWARD
        THEN write_analog(write_digital(m, pin13, 0), pin14, motorspeed)
    ELSE IF direction = BACKWARD
        THEN write_analog(write_digital(m, pin15, 1), pin16, motorspeed)
    ELSE m

setMotor(m, channel, direction, speed) ==
    LET motorspeed == map_0_100_to_0_1023(speed) IN
    IF channel = M1 /\ direction = FORWARD
        THEN write_analog(write_digital(m, pin13, 1), pin14, motorspeed)
    ELSE IF channel = M2 /\ direction = FORWARD
        THEN write_analog(write_digital(m, pin15, 0), pin16, motorspeed)
    ELSE IF channel = M1 /\ direction = BACKWARD
        THEN write_analog(write_digital(m, pin13, 0), pin14, motorspeed)
    ELSE IF channel = M2 /\ direction = BACKWARD
        THEN write_analog(write_digital(m, pin15, 1), pin16, motorspeed)
    ELSE m

----------------------------------------------------------------------------
\* Public API (ADC)

\* The variant of setADC_Address that stores nothing
setADC_Address_dropped(m, a) == m

setADC_Address(m, a) == [m EXCEPT !.addr = a]

cmd_table == <<ADC0, ADC1, ADC2, ADC3, ADC4, ADC5, ADC6, ADC7>>

CmdBytes == {cmd_table[i] : i \in 1 .. Len(cmd_table)}

\* a << n and a | b on non-negative integers
Shl(a, n) == a * 2 ^ n

RECURSIVE BitOr(_, _)
BitOr(a, b) ==
    IF a = 0 THEN b
    ELSE IF b = 0 THEN a
    ELSE (IF a % 2 = 1 \/ b % 2 = 1 THEN 1 ELSE 0)
         + 2 * BitOr(a \div 2, b \div 2)

\* The variant of ReadADC without the final else branch: every input that is
\* no channel number is sent as a command byte
ReadADC_unchecked(m, x, data) ==
    LET cmd == IF 0 <= x /\ x <= 7 THEN cmd_table[x + 1] ELSE x
        m1 == i2c_write(m, m.addr, <<cmd>>)
        m2 == i2c_read(m1, m1.addr, 2)
    IN  [m |-> m2, ret |-> BitOr(Shl(data[1], 8), data[2])]

\* data is what the device answers to the 2-byte read (data[1] first); the
\* result is the board and the returned integer
ReadADC(m, x, data) ==
    IF (0 <= x /\ x <= 7) \/ x \in CmdBytes
    THEN LET cmd == IF 0 <= x /\ x <= 7 THEN cmd_table[x + 1] ELSE x
             m1 == i2c_write(m, m.addr, <<cmd>>)
             m2 == i2c_read(m1, m1.addr, 2)
         IN  [m |-> m2, ret |-> BitOr(Shl(data[1], 8), data[2])]
    ELSE [m |-> m, ret |-> 0 - 1]

----------------------------------------------------------------------------
\* Public API (Servo)

Servo(m, which, degree) ==
    IF which = SV1 THEN servo_write_deg(m, pin8, degree, 500, 2500)
    ELSE IF which = SV2 THEN servo_write_deg(m, pin12, degree, 500, 2500)
    ELSE m

ServoStop(m, which) ==
    IF which = SV1 THEN servo_stop(m, pin8)
    ELSE IF which = SV2 THEN servo_stop(m, pin12)
    ELSE m

----------------------------------------------------------------------------
\* State after import of iBIT.py and the start-up lines of main.py

spd == 60

Init ==
    /\ pin = [p \in Pins |-> FreshPin]
    /\ ADC_ADDRESS = IBIT_V2
    /\ trace = <<>>
    /\ bus = <<>>
    /\ call = [op |-> "none", args |-> <<>>, ret |-> "None"]
    /\ setHist = <<>>
    /\ direction_motor = 0
    /\ direction_time = 0
    /\ t0 = 0
    /\ now = 0
    /\ icon = "All"
    /\ btnA = FALSE
    /\ btnB = FALSE
    /\ issued = <<>>
    /\ motorHist = <<>>

\* The board as a call finds it; trace holds the writes of one call only
Cur == Board(pin, ADC_ADDRESS, <<>>, bus)

\* The board and the call record after a call
Apply(m, c) ==
    /\ pin' = m.pin
    /\ ADC_ADDRESS' = m.addr
    /\ trace' = m.trace
    /\ bus' = m.bus
    /\ call' = c

Void(op, args) == [op |-> op, args |-> args, ret |-> "None"]

----------------------------------------------------------------------------
\* A program that calls the motor API in any order with any arguments

MotorCall ==
    \E d \in Selectors, s \in Speeds :
        /\ Apply(Motor(Cur, d, s), Void("Motor", <<d, s>>))
        /\ UNCHANGED <<setHist, qcVars>>

Motor2Call ==
    \E d \in Selectors, s1 \in Speeds, s2 \in Speeds :
        /\ Apply(Motor2(Cur, d, s1, s2), Void("Motor2", <<d, s1, s2>>))
        /\ UNCHANGED <<setHist, qcVars>>

TurnCall ==
    \E d \in Selectors, s \in Speeds :
        /\ Apply(Turn(Cur, d, s), Void("Turn", <<d, s>>))
        /\ UNCHANGED <<setHist, qcVars>>

SpinCall ==
    \E d \in Selectors, s \in Speeds :
        /\ Apply(Spin(Cur, d, s), Void("Spin", <<d, s>>))
        /\ UNCHANGED <<setHist, qcVars>>

MotorStopCall ==
    /\ Apply(MotorStop(Cur), Void("MotorStop", <<>>))
    /\ UNCHANGED <<setHist, qcVars>>

setMotorCall ==
    \E c \in Selectors, d \in Selectors, s \in Speeds :
        /\ Apply(setMotor(Cur, c, d, s), Void("setMotor", <<c, d, s>>))
        /\ UNCHANGED <<setHist, qcVars>>

NextMotion ==
    \/ MotorCall
    \/ Motor2Call
    \/ TurnCall
    \/ SpinCall
    \/ MotorStopCall
    \/ setMotorCall

SpecMotion == Init /\ [][NextMotion]_vars

----------------------------------------------------------------------------
\* A program that calls the servo API in any order with any arguments

ServoCall ==
    \E w \in Selectors, g \in Degrees :
        /\ Apply(Servo(Cur, w, g), Void("Servo", <<w, g>>))
        /\ UNCHANGED <<setHist, qcVars>>

ServoStopCall ==
    \E w \in Selectors :
        /\ Apply(ServoStop(Cur, w), Void("ServoStop", <<w>>))
        /\ UNCHANGED <<setHist, qcVars>>

NextServo ==
    \/ ServoCall
    \/ ServoStopCall

SpecServo == Init /\ [][NextServo]_vars

----------------------------------------------------------------------------
\* A program that calls the ADC API in any order with any arguments.
\* bus holds the transactions since the start of the latest ReadADC call;
\* setHist is the list of addresses handed to setADC_Address so far.

AdcInputs == ((0 - 1) .. 8) \cup CmdBytes \cup {131, 133, 245, 999}

setADC_AddressCall ==
    \E a \in Addrs :
        /\ Len(setHist) < MaxSets
        /\ Apply(setADC_Address(Cur, a), Void("setADC_Address", <<a>>))
        /\ setHist' = Append(setHist, a)
        /\ UNCHANGED qcVars

ReadADCCall ==
    \E x \in AdcInputs, data \in Datas :
        LET r == ReadADC([Cur EXCEPT !.bus = <<>>], x, data) IN
        /\ Apply(r.m, [op |-> "ReadADC", args |-> <<x, data>>, ret |-> r.ret])
        /\ UNCHANGED <<setHist, qcVars>>

NextADC ==
    \/ setADC_AddressCall
    \/ ReadADCCall

SpecADC == Init /\ [][NextADC]_vars

----------------------------------------------------------------------------
\* main.py: the QC loop.  One loop iteration is one step: Idle when fewer
\* than 500 ms have passed since t0, Tick otherwise; both end in sleep(10).
\* now is running_time(); the time the loop body itself takes counts as zero.
\* The print calls and the reads of P0..P2 change no state and are left out.

PERIOD_MS == 500
SLEEP_MS == 10

\* x ^ 1 on a non-negative integer
Xor1(x) == IF x % 2 = 0 THEN x + 1 ELSE x - 1

\* The variant of the tick body that runs the motor on the even counts
TickCalls_evenRuns(a, b, dm, dt) ==
    (IF a THEN [i \in 1 .. 8 |-> <<"ReadADC", i - 1>>] ELSE <<>>)
    \o (IF b
        THEN <<IF dt % 2 = 0 THEN <<"Motor", dm, spd>> ELSE <<"MotorStop">>>>
             \o (IF dm # 0
                 THEN << <<"Servo", SV1, 60>>, <<"Servo", SV2, 120>> >>
                 ELSE << <<"Servo", SV1, 120>>, <<"Servo", SV2, 60>> >>)
        ELSE << <<"MotorStop">>, <<"ServoStop", SV1>>, <<"ServoStop", SV2>> >>)

\* The library calls of one tick body, in program order, for the sampled
\* buttons a and b, the toggled direction dm and the incremented counter dt
TickCalls(a, b, dm, dt) ==
    (IF a THEN [i \in 1 .. 8 |-> <<"ReadADC", i - 1>>] ELSE <<>>)
    \o (IF b
        THEN <<IF dt % 2 # 0 THEN <<"Motor", dm, spd>> ELSE <<"MotorStop">>>>
             \o (IF dm # 0
                 THEN << <<"Servo", SV1, 60>>, <<"Servo", SV2, 120>> >>
                 ELSE << <<"Servo", SV1, 120>>, <<"Servo", SV2, 60>> >>)
        ELSE << <<"MotorStop">>, <<"ServoStop", SV1>>, <<"ServoStop", SV2>> >>)

\* One library call on the board
Exec(m, c, data) ==
    CASE c[1] = "ReadADC" -> ReadADC(m, c[2], data).m
      [] c[1] = "Motor" -> Motor(m, c[2], c[3])
      [] c[1] = "MotorStop" -> MotorStop(m)
      [] c[1] = "Servo" -> Servo(m, c[2], c[3])
      [] c[1] = "ServoStop" -> ServoStop(m, c[2])

RECURSIVE Run(_, _, _)
Run(m, cs, data) ==
    IF cs = <<>> THEN m ELSE Run(Exec(m, Head(cs), data), Tail(cs), data)

IsMotorCmd(c) == c[1] \in {"Motor", "MotorStop"}

Idle ==
    /\ direction_time < MaxTicks
    /\ ~(now - t0 >= PERIOD_MS)
    /\ now' = now + SLEEP_MS
    /\ UNCHANGED <<libVars, call, setHist, direction_motor, direction_time,
                   t0, icon, btnA, btnB, issued, motorHist>>

\* trace, bus and issued hold the writes, transactions and calls of the
\* latest tick; motorHist holds the motor calls of every tick so far
Tick ==
    /\ direction_time < MaxTicks
    /\ now - t0 >= PERIOD_MS
    /\ \E a \in BOOLEAN, b \in BOOLEAN, data \in Datas :
        LET dm == IF direction_time % 4 = 0
                  THEN Xor1(direction_motor) ELSE direction_motor
            dt == direction_time + 1
            cs == TickCalls(a, b, dm, dt)
            m == Run(Board(pin, ADC_ADDRESS, <<>>, <<>>), cs, data)
        IN  /\ t0' = now
            /\ direction_motor' = dm
            /\ direction_time' = dt
            /\ btnA' = a
            /\ btnB' = b
            /\ icon' = IF b THEN "B" ELSE IF a THEN "A" ELSE icon
            /\ issued' = cs
            /\ motorHist' = Append(motorHist, SelectSeq(cs, IsMotorCmd))
            /\ pin' = m.pin
            /\ ADC_ADDRESS' = m.addr
            /\ trace' = m.trace
            /\ bus' = m.bus
    /\ now' = now + SLEEP_MS
    /\ UNCHANGED <<call, setHist>>

NextQC ==
    \/ Idle
    \/ Tick

SpecQC == Init /\ [][NextQC]_vars

----------------------------------------------------------------------------
\* ADC claims (SpecADC)

\* The inputs ReadADC accepts, written out
ValidAdcInput(x) ==
    x \in {0, 1, 2, 3, 4, 5, 6, 7, 132, 196, 148, 212, 164, 228, 180, 244}

\* The command byte the ADC expects for a valid input
ExpectedCmd(x) ==
    IF x \in 0 .. 7
    THEN <<132, 196, 148, 212, 164, 228, 180, 244>>[x + 1]
    ELSE x

\* The address of the latest setADC_Address call, 0x4A before the first
ConfiguredAddr == IF setHist = <<>> THEN 74 ELSE setHist[Len(setHist)]

\* C2: for every input that is neither a channel number 0..7 nor one of the
\* eight command bytes, ReadADC returns -1, does no I2C write and no I2C read,
\* and leaves the configured ADC address as it was.
C2_InvalidInputNoTraffic ==
    /\ [](call.op = "ReadADC" /\ ~ValidAdcInput(call.args[1])
            => call.ret = 0 - 1 /\ bus = <<>>)
    /\ [][call'.op = "ReadADC" /\ ~ValidAdcInput(call'.args[1])
            => ADC_ADDRESS' = ADC_ADDRESS]_vars

\* C2 witness: ReadADC(999) was called after the address was set to 0x48
C2_Witness ==
    /\ call.op = "ReadADC"
    /\ call.args[1] = 999
    /\ call.ret = 0 - 1
    /\ setHist # <<>>
    /\ ADC_ADDRESS = IBIT_V1

\* C3: every ReadADC with a valid input does exactly one I2C write of the one
\* command byte (the table entry for a channel number, the input itself for a
\* command byte) and then exactly one 2-byte I2C read, both to the address of
\* the latest setADC_Address call (0x4A if none), and returns
\* first_byte * 256 + second_byte; setADC_Address stores its argument, does no
\* I2C traffic and leaves the record of the earlier read as it is.
C3_ReadTransaction ==
    /\ [](call.op = "ReadADC" /\ ValidAdcInput(call.args[1])
            => /\ bus = << <<"write", ConfiguredAddr,
                             <<ExpectedCmd(call.args[1])>> >>,
                           <<"read", ConfiguredAddr, 2>> >>
               /\ call.ret = call.args[2][1] * 256 + call.args[2][2])
    /\ [][call'.op = "setADC_Address"
            => bus' = bus /\ ADC_ADDRESS' = call'.args[1]]_vars

\* C3 witness: a read by channel number after the address was set to 0x4A and
\* then to 0x48 went to 0x48
C3_Witness ==
    /\ call.op = "ReadADC"
    /\ call.args[1] = 3
    /\ setHist = <<IBIT_V2, IBIT_V1>>
    /\ bus = << <<"write", 72, <<212>> >>, <<"read", 72, 2>> >>
    /\ call.ret = 65408

----------------------------------------------------------------------------
\* Motor claims (SpecMotion)

\* d is floor(clamp(speed, 0, 100) * 1023 / 100), said without division
IsSpeedDuty(d, speed) ==
    LET c == IF speed < 0 THEN 0 ELSE IF speed > 100 THEN 100 ELSE speed IN
    /\ d \in 0 .. 1023
    /\ 100 * d <= c * 1023
    /\ c * 1023 < 100 * (d + 1)
    /\ (speed < 0 => d = 0)
    /\ (speed > 100 => d = 1023)
    /\ (speed = 50 => d = 511)

Recognised(sel) == sel \in {0, 1}

\* C1: after MotorStop, whatever the pins held before, both direction pins
\* P13 and P15 are high and both speed pins P14 and P16 carry duty 0.
C1_MotorStopSafeState ==
    call.op = "MotorStop"
        => /\ pin["P13"].dig = 1
           /\ pin["P15"].dig = 1
           /\ pin["P14"].ana = 0
           /\ pin["P16"].ana = 0

\* C1 witness: MotorStop has run and made its four writes
C1_Witness ==
    /\ call.op = "MotorStop"
    /\ Len(trace) = 4
    /\ pin["P15"].dig = 1

\* C4: the duty a motor call writes for a speed argument is
\* floor(clamp(speed, 0, 100) * 1023 / 100): 0 below 0, 1023 above 100, 511
\* for 50, always within 0..1023.  Motor and Spin write it to both speed pins,
\* Motor2 writes speed1's to P14 and speed2's to P16, Turn writes it to the
\* driven motor's pin (and the constant 0 to the held one), setMotor to the
\* addressed motor's pin.
C4_SpeedToDuty ==
    /\ (call.op \in {"Motor", "Spin"} /\ Recognised(call.args[1])
          => /\ IsSpeedDuty(pin["P14"].ana, call.args[2])
             /\ IsSpeedDuty(pin["P16"].ana, call.args[2]))
    /\ (call.op = "Motor2" /\ Recognised(call.args[1])
          => /\ IsSpeedDuty(pin["P14"].ana, call.args[2])
             /\ IsSpeedDuty(pin["P16"].ana, call.args[3]))
    /\ (call.op = "Turn" /\ call.args[1] = 0
          => pin["P14"].ana = 0 /\ IsSpeedDuty(pin["P16"].ana, call.args[2]))
    /\ (call.op = "Turn" /\ call.args[1] = 1
          => IsSpeedDuty(pin["P14"].ana, call.args[2]) /\ pin["P16"].ana = 0)
    /\ (call.op = "setMotor" /\ call.args[1] = 0 /\ Recognised(call.args[2])
          => IsSpeedDuty(pin["P14"].ana, call.args[3]))
    /\ (call.op = "setMotor" /\ call.args[1] = 1 /\ Recognised(call.args[2])
          => IsSpeedDuty(pin["P16"].ana, call.args[3]))
    /\ \A i \in 1 .. Len(trace) :
          trace[i][2] = "analog" => trace[i][3] \in 0 .. 1023

\* C4 witness: Motor2 with one speed below 0 and the other above 100
C4_Witness ==
    /\ call.op = "Motor2"
    /\ call.args[1] = 1
    /\ call.args[2] < 0
    /\ call.args[3] > 100
    /\ pin["P14"].ana = 0
    /\ pin["P16"].ana = 1023

\* C6 as claimed: Motor(FORWARD, s) leaves both direction pins high,
\* Motor(BACKWARD, s) leaves both low, both speed pins at the same duty.
C6_Claimed ==
    /\ (call.op = "Motor" /\ call.args[1] = 0
          => /\ pin["P13"].dig = 1
             /\ pin["P15"].dig = 1
             /\ pin["P14"].ana = pin["P16"].ana)
    /\ (call.op = "Motor" /\ call.args[1] = 1
          => /\ pin["P13"].dig = 0
             /\ pin["P15"].dig = 0
             /\ pin["P14"].ana = pin["P16"].ana)

\* C6 as amended: Motor(FORWARD, s) leaves P13 high and P15 low,
\* Motor(BACKWARD, s) leaves P13 low and P15 high (the two direction pins
\* end at opposite levels), both speed pins at the same duty, that of s.
C6_MotorLevels ==
    /\ (call.op = "Motor" /\ call.args[1] = 0
          => /\ pin["P13"].dig = 1
             /\ pin["P15"].dig = 0
             /\ pin["P14"].ana = pin["P16"].ana
             /\ IsSpeedDuty(pin["P14"].ana, call.args[2]))
    /\ (call.op = "Motor" /\ call.args[1] = 1
          => /\ pin["P13"].dig = 0
             /\ pin["P15"].dig = 1
             /\ pin["P14"].ana = pin["P16"].ana
             /\ IsSpeedDuty(pin["P14"].ana, call.args[2]))

\* C6 witness: Motor(BACKWARD, 50) has run
C6_Witness ==
    /\ call.op = "Motor"
    /\ call.args = <<1, 50>>
    /\ pin["P13"].dig = 0
    /\ pin["P15"].dig = 1
    /\ pin["P16"].ana = 511

SameLevel(p) == p["P13"].dig = p["P15"].dig

\* C7 as claimed: Spin writes the same duty to both speed pins, and the
\* direction pins end at opposite levels for one of SPIN_LEFT / SPIN_RIGHT
\* and at the same level for the other: the spin that ran and the opposite
\* spin at the same speed differ in whether P13 and P15 agree.
C7_Claimed ==
    call.op = "Spin" /\ Recognised(call.args[1])
        => /\ pin["P14"].ana = pin["P16"].ana
           /\ SameLevel(pin)
                # SameLevel(Spin(Cur, 1 - call.args[1], call.args[2]).pin)

\* C7 as amended: Spin writes the same duty to both speed pins, and the
\* direction pins P13 and P15 end at the same level for both spin
\* directions: both low after SPIN_LEFT, both high after SPIN_RIGHT.
C7_SpinLevels ==
    /\ (call.op = "Spin" /\ Recognised(call.args[1])
          => /\ pin["P14"].ana = pin["P16"].ana
             /\ IsSpeedDuty(pin["P14"].ana, call.args[2]))
    /\ (call.op = "Spin" /\ call.args[1] = 0
          => pin["P13"].dig = 0 /\ pin["P15"].dig = 0)
    /\ (call.op = "Spin" /\ call.args[1] = 1
          => pin["P13"].dig = 1 /\ pin["P15"].dig = 1)

\* C7 witness: Spin(SPIN_RIGHT, 100) has run
C7_Witness ==
    /\ call.op = "Spin"
    /\ call.args = <<1, 100>>
    /\ pin["P13"].dig = 1
    /\ pin["P15"].dig = 1
    /\ pin["P14"].ana = 1023

\* The two writes of setMotor on a direction pin and a speed pin
TwoWrites(dirPin, level, speedPin, t) ==
    /\ Len(t) = 2
    /\ t[1] = <<dirPin, "digital", level>>
    /\ t[2][1] = speedPin
    /\ t[2][2] = "analog"

\* C8: setMotor writes the direction pin and the speed pin of the addressed
\* motor only (P13/P14 for M1, P15/P16 for M2) and leaves every other pin as
\* it was; with a channel outside {M1, M2} or a direction outside
\* {FORWARD, BACKWARD} it writes no pin and returns as any call does.
C8_SetMotorFrame ==
    [][call'.op = "setMotor"
        => LET ch == call'.args[1]
               dir == call'.args[2]
           IN  /\ (ch = 0 /\ Recognised(dir)
                     => /\ TwoWrites("P13", 1 - dir, "P14", trace')
                        /\ \A p \in Pins \ {"P13", "P14"} : pin'[p] = pin[p])
               /\ (ch = 1 /\ Recognised(dir)
                     => /\ TwoWrites("P15", dir, "P16", trace')
                        /\ \A p \in Pins \ {"P15", "P16"} : pin'[p] = pin[p])
               /\ (~Recognised(ch) \/ ~Recognised(dir)
                     => trace' = <<>> /\ pin' = pin)
               /\ call'.ret = "None"]_vars

\* C8 witness: setMotor(M1, FORWARD, 50) has run while motor 2 keeps the
\* backward level and full duty an earlier call gave it
C8_Witness ==
    /\ call.op = "setMotor"
    /\ call.args = <<0, 0, 50>>
    /\ pin["P13"].dig = 1
    /\ pin["P14"].ana = 511
    /\ pin["P15"].dig = 1
    /\ pin["P16"].ana = 1023

----------------------------------------------------------------------------
\* Servo claims (SpecServo)

\* d is floor((500 + floor(2000 * clamp(degree, 0, 180) / 180)) * 1023 / 20000),
\* said without division
IsServoDuty(d, degree) ==
    LET c == IF degree < 0 THEN 0 ELSE IF degree > 180 THEN 180 ELSE degree IN
    /\ d \in 25 .. 127
    /\ \E pulse \in 500 .. 2500 :
          /\ 180 * (pulse - 500) <= 2000 * c
          /\ 2000 * c < 180 * (pulse - 500 + 1)
          /\ 20000 * d <= pulse * 1023
          /\ pulse * 1023 < 20000 * (d + 1)
    /\ (degree <= 0 => d = 25)
    /\ (degree >= 180 => d = 127)

ServoPin(which) == IF which = 0 THEN "P8" ELSE "P12"

\* C5: Servo(which, degree) with which in {SV1, SV2} first sets the PWM
\* period of that servo's pin (P8 for SV1, P12 for SV2) to 20000 us and then
\* writes the duty floor((500 + floor(2000 * clamp(degree,0,180) / 180)) *
\* 1023 / 20000) to the same pin; the duty is 25 for degree <= 0, 127 for
\* degree >= 180 and always within 25..127; it writes nothing else, so the
\* other servo's pin is not written.
C5_ServoWrite ==
    call.op = "Servo" /\ Recognised(call.args[1])
        => LET p == ServoPin(call.args[1]) IN
           /\ Len(trace) = 2
           /\ trace[1] = <<p, "period", 20000>>
           /\ trace[2][1] = p
           /\ trace[2][2] = "analog"
           /\ IsServoDuty(trace[2][3], call.args[2])
           /\ pin[p].period = 20000
           /\ pin[p].ana = trace[2][3]

\* C5 witness: Servo(SV2, 181) has run while SV1 holds the duty of 60 degrees
C5_Witness ==
    /\ call.op = "Servo"
    /\ call.args[1] = 1
    /\ call.args[2] > 180
    /\ pin["P12"].ana = 127
    /\ pin["P8"].ana = 59

----------------------------------------------------------------------------
\* QC loop claims (SpecQC)

Has(cs, c) == \E i \in 1 .. Len(cs) : cs[i] = c

\* MotorStop, ServoStop(SV1), ServoStop(SV2) appear in cs in this order
SafeStopIn(cs) ==
    \E i \in 1 .. Len(cs) :
        /\ i + 2 <= Len(cs)
        /\ cs[i] = <<"MotorStop">>
        /\ cs[i + 1] = <<"ServoStop", 0>>
        /\ cs[i + 2] = <<"ServoStop", 1>>

\* C9 as claimed: at every action tick the safe-stop sequence (MotorStop,
\* ServoStop(SV1), ServoStop(SV2)) is issued if and only if neither button A
\* nor button B is pressed at that tick; a tick with button A pressed does the
\* ADC read test and stops neither the motors nor the servos.
C9_Claimed ==
    direction_time > 0
        => /\ SafeStopIn(issued) <=> (~btnA /\ ~btnB)
           /\ (btnA => /\ \A ch \in 0 .. 7 : Has(issued, <<"ReadADC", ch>>)
                       /\ ~Has(issued, <<"MotorStop">>)
                       /\ ~Has(issued, <<"ServoStop", 0>>)
                       /\ ~Has(issued, <<"ServoStop", 1>>))

\* The motor calls of tick i
MotorOf(i, d) == Has(motorHist[i], <<"Motor", d, 60>>)
StopOf(i) == Has(motorHist[i], <<"MotorStop">>)

====
